---- MODULE Spec2Model ----
(***************************************************************************)
(* GPTEmbeddingMapper (src/map_gpt_embeddings/mappers.py): a stream mapper  *)
(* that rewrites SCHEMA messages and fans each RECORD message out into one  *)
(* message per text segment, each annotated with an embedding obtained     *)
(* from a remote call.                                                     *)
(*                                                                         *)
(* Python dicts are functions with a finite domain of strings; lists are   *)
(* sequences; a text is a sequence of one-character strings.  The outbound *)
(* embedding call is a step of its own (the request is sent, then the      *)
(* remote service answers or fails), and so is every resumption of the     *)
(* map_record_message generator by its consumer.                           *)
(*                                                                         *)
(* out, calls and replies hold what was emitted, requested and answered    *)
(* while the current input message is processed; nemitted and ncalls count *)
(* the record messages written downstream and the requests sent over the   *)
(* whole run.  The configured property names range over names other than   *)
(* the two fields the mapper adds (embeddings, segment_number).            *)
(***************************************************************************)
EXTENDS Integers, Sequences, FiniteSets, TLC

VARIABLES config, config0, env, validation, pc, message, document_segments,
          i, out, calls, replies, error, nread, ncalls, nemitted

vars == <<config, config0, env, validation, pc, message, document_segments,
          i, out, calls, replies, error, nread, ncalls, nemitted>>

\* ---------------------------------------------------------------- bounds
MaxMessages == 2
MaxTextLen == 3

\* ------------------------------------------------------------ dict helpers
EmptyDict == [k \in {} |-> ""]

\* dict.get(k, default)
Get(d, k, default) == IF k \in DOMAIN d THEN d[k] ELSE default

\* d[k] = v
Put(d, k, v) == [x \in (DOMAIN d) \cup {k} |-> IF x = k THEN v ELSE d[x]]

None == "<None>"

\* ----------------------------------------------------------- configuration
DefaultChunkSize == 1000
DefaultChunkOverlap == 200

SplitterConfigs ==
    { EmptyDict,
      [k \in {"chunk_size", "chunk_overlap"} |-> IF k = "chunk_size" THEN 1 ELSE 0],
      [k \in {"chunk_size", "chunk_overlap"} |-> IF k = "chunk_size" THEN 2 ELSE 1],
      [k \in {"chunk_size"} |-> 2],
      [k \in {"chunk_overlap"} |-> 1] }

\* The plugin configuration: the two property names always carry a value
\* (config_jsonschema gives them defaults); every other key may be missing.
BaseConfigs ==
    { [k \in {"document_text_property", "document_metadata_property", "openai_api_key"} |->
          IF k = "document_text_property" THEN "page_content"
          ELSE IF k = "document_metadata_property" THEN "metadata" ELSE "sk"],
      [k \in {"document_text_property", "document_metadata_property"} |->
          IF k = "document_text_property" THEN "page_content" ELSE "meta"] }

WithOptional(cs, k, vals) == cs \cup { Put(c, k, v) : c \in cs, v \in vals }

Configs ==
    WithOptional(
        WithOptional(BaseConfigs, "split_documents", BOOLEAN),
        "splitter_config", SplitterConfigs)

ValidateConfigs == WithOptional(Configs, "openai_api_key", {None, "sk"})

\* f"{self.name.upper().replace('-', '_')}_OPEN_API_KEY"
PluginEnvVar == "MAP_OPENAI_EMBEDDINGS_OPEN_API_KEY"

EnvNames == {"OPENAI_API_KEY", PluginEnvVar, "HOME"}

\* ------------------------------------------------------------------ inputs
Chars == {"a", "\n"}

RECURSIVE SeqsUpTo(_, _)
SeqsUpTo(S, n) ==
    IF n = 0 THEN {<<>>}
    ELSE LET shorter == SeqsUpTo(S, n - 1)
         IN  shorter \cup { Append(s, c) : s \in shorter, c \in S }

Texts == SeqsUpTo(Chars, MaxTextLen)

Metadatas == { [k \in {"source"} |-> "doc1"] }

\* Input records: an "id" field, the text field (missing in one record), and
\* optionally the metadata field.
RecordsFor(cfg) ==
    LET tp == cfg["document_text_property"]
        mp == cfg["document_metadata_property"]
        base == [k \in {"id"} |-> 7]
        withText == { Put(base, tp, t) : t \in Texts }
    IN  {base} \cup withText \cup { Put(r, mp, m) : r \in withText, m \in Metadatas }

RecordMessagesFor(cfg) ==
    { [type |-> "RECORD", stream |-> "docs", record |-> r] : r \in RecordsFor(cfg) }

SchemaStringType == [type |-> "string"]

InputPropertyNames ==
    { {}, {"id"}, {"id", "metadata"}, {"id", "embeddings", "segment_number"},
      {"id", "metadata", "embeddings", "segment_number"} }

InputProperties ==
    { [p \in ps |-> SchemaStringType] : ps \in InputPropertyNames }

InputKeyProperties == { <<>>, <<"id">>, <<"id", "segment_number">> }

SchemaMessages ==
    { [type |-> "SCHEMA", stream |-> "docs",
       schema |-> [properties |-> ps], key_properties |-> ks]
      : ps \in InputProperties, ks \in InputKeyProperties }

NoMessage == [type |-> "NONE"]
NoError == [type |-> "None", message |-> <<>>]

\* Responses of the embeddings endpoint: a data list whose elements carry a
\* vector each.
Responses ==
    { <<[embedding |-> <<1>>]>>,
      <<[embedding |-> <<2>>], [embedding |-> <<1>>]>> }

\* ------------------------------------------------------- schema transform
ArrayOfNumber == [type |-> "array", items |-> [type |-> "number"]]
ObjectTypeDict == [type |-> "object", properties |-> EmptyDict]
IntegerTypeDict == [type |-> "integer"]

\* As SchemaProperties, with the metadata property declared unconditionally.
SchemaPropertiesOverwritingMetadata(properties, cfg) ==
    LET p1 == Put(properties, "embeddings", ArrayOfNumber)
        p2 == Put(p1, cfg["document_metadata_property"], ObjectTypeDict)
    IN  Put(p2, "segment_number", IntegerTypeDict)

\* lines 27-39, on the message yielded by the passthrough base class
SchemaProperties(properties, cfg) ==
    LET metadata_property == cfg["document_metadata_property"]
        p1 == Put(properties, "embeddings", ArrayOfNumber)
        p2 == IF metadata_property \notin DOMAIN p1
              THEN Put(p1, metadata_property, ObjectTypeDict)
              ELSE p1
    IN  Put(p2, "segment_number", IntegerTypeDict)

SchemaKeyProperties(key_properties) == Append(key_properties, "segment_number")

\* The passthrough base class yields one schema message built from the
\* message dictionary.
BaseMapSchemaMessage(m) ==
    <<[type |-> "SCHEMA", stream |-> m.stream, schema |-> m.schema,
       key_properties |-> m.key_properties]>>

\* map_schema_message: every message of the base class, rewritten
SchemaResult(m, cfg) ==
    LET results == BaseMapSchemaMessage(m)
    IN  [j \in 1..Len(results) |->
            [results[j] EXCEPT
                !.schema.properties = SchemaProperties(results[j].schema.properties, cfg),
                !.key_properties = SchemaKeyProperties(results[j].key_properties)]]

\* ------------------------------------------------------------- chunking
Min(a, b) == IF a < b THEN a ELSE b

\* lines 106-110: the defaults are written into the mapping itself
FilledSplitterConfig(splitter_config) ==
    LET c1 == IF "chunk_size" \notin DOMAIN splitter_config
              THEN Put(splitter_config, "chunk_size", DefaultChunkSize)
              ELSE splitter_config
    IN  IF "chunk_overlap" \notin DOMAIN c1
        THEN Put(c1, "chunk_overlap", DefaultChunkOverlap)
        ELSE c1

\* self.config.get("splitter_config", {}) returns the mapping held by the
\* configuration when there is one, and a fresh one otherwise.
ConfigAfterSplit(cfg) ==
    IF "splitter_config" \in DOMAIN cfg
    THEN Put(cfg, "splitter_config", FilledSplitterConfig(cfg["splitter_config"]))
    ELSE cfg

\* The splitter's constructor rejects an overlap larger than the chunk size.
SplitterRejects(sc) == sc["chunk_overlap"] > sc["chunk_size"]

\* The splitter as a sliding window of chunk_size characters that advances
\* by chunk_size - chunk_overlap; an empty text gives no chunk.
SplitText(text, size, overlap) ==
    LET L == Len(text)
        step == size - overlap
        n == IF L = 0 THEN 0
             ELSE IF L <= size THEN 1
             ELSE ((L - overlap) + step - 1) \div step
    IN  [j \in 1..n |-> SubSeq(text, (j - 1) * step + 1, Min((j - 1) * step + size, L))]

\* text_splitter.split_documents([document]): every chunk carries a copy of
\* the document's metadata.
SplitDocuments(text, metadata, sc) ==
    LET chunks == SplitText(text, sc["chunk_size"], sc["chunk_overlap"])
    IN  [j \in 1..Len(chunks) |-> [page_content |-> chunks[j], metadata |-> metadata]]

\* As SegmentsAccepted, with the assertion of lines 117-119 enabled.
SegmentsAsserted(segments) == Len(segments) > 0

\* lines 117-119: the assertion on the split's output is commented out, so
\* any number of segments passes.
SegmentsAccepted(segments) == TRUE

\* As NewRecord, numbering the segments from one.
NewRecordOneBased(record, doc_segment, idx, cfg) ==
    LET r1 == Put(record, cfg["document_text_property"], doc_segment.page_content)
        r2 == Put(r1, cfg["document_metadata_property"], doc_segment.metadata)
    IN  Put(r2, "segment_number", idx + 1)

\* lines 126-129; idx is the zero-based enumerate index
NewRecord(record, doc_segment, idx, cfg) ==
    LET r1 == Put(record, cfg["document_text_property"], doc_segment.page_content)
        r2 == Put(r1, cfg["document_metadata_property"], doc_segment.metadata)
    IN  Put(r2, "segment_number", idx)

\* --------------------------------------------------------- embedding call
\* As ReplaceNewlines, removing the newlines: text.replace("\n", "")
RemoveNewlines(text) == SelectSeq(text, LAMBDA c : c # "\n")

\* text.replace("\n", " ")
ReplaceNewlines(text) ==
    [p \in 1..Len(text) |-> IF text[p] = "\n" THEN " " ELSE text[p]]

\* openai.Embedding.create(input=[text], model=model, api_key=api_key)
EmbeddingRequest(text, model, api_key) ==
    [input |-> <<ReplaceNewlines(text)>>, model |-> model, api_key |-> api_key]

\* response_dict["data"][0]["embedding"]
EmbeddingOf(data) == data[1].embedding

\* The request map_record_message makes for the segment at index idx.
RequestFor(m, segments, idx, cfg) ==
    EmbeddingRequest(
        NewRecord(m.record, segments[idx + 1], idx, cfg)[cfg["document_text_property"]],
        "text-embedding-ada-002",
        Get(cfg, "openai_api_key", None))

\* RecordMessage.from_dict: a record message of the dictionary's stream and
\* record.
RecordMessageFromDict(d) == [type |-> "RECORD", stream |-> d.stream, record |-> d.record]

\* lines 179-192: the message yielded for the segment at index idx
OutputMessage(m, segments, idx, data, cfg) ==
    LET split_record == Put(NewRecord(m.record, segments[idx + 1], idx, cfg),
                            "embeddings", EmbeddingOf(data))
        new_message == [m EXCEPT !.record = split_record]
    IN  RecordMessageFromDict(new_message)

RateLimitPrefix == "Sync aborted due to OpenAI rate limit reached. Error message:\n"

AbortedSync(ex) ==
    [type |-> "AbortedSyncFailedException", message |-> <<RateLimitPrefix, ex>>]

\* ------------------------------------------------------------------ state
Start(cfgs, envs) ==
    /\ config \in cfgs
    /\ config0 = config
    /\ env \in envs
    /\ validation = NoMessage
    /\ pc = "idle"
    /\ message = NoMessage
    /\ document_segments = <<>>
    /\ i = 0
    /\ out = <<>>
    /\ calls = <<>>
    /\ replies = <<>>
    /\ error = NoError
    /\ nread = 0
    /\ ncalls = 0
    /\ nemitted = 0

Init == Start(Configs, {{"OPENAI_API_KEY"}})

\* The consumer hands over the next input message once the previous one is
\* fully processed.
MapSchemaMessage(m) ==
    /\ pc = "idle"
    /\ nread < MaxMessages
    /\ nread' = nread + 1
    /\ message' = m
    /\ out' = SchemaResult(m, config)
    /\ calls' = <<>>
    /\ replies' = <<>>
    /\ document_segments' = <<>>
    /\ i' = 0
    /\ pc' = "idle"
    /\ UNCHANGED <<config, config0, env, validation, error, ncalls, nemitted>>

\* map_record_message up to its first embedding request, or to its end when
\* split_record yields nothing or raises.
MapRecordMessage(m) ==
    LET record == m.record
        filled == FilledSplitterConfig(Get(config, "splitter_config", EmptyDict))
        metadata_dict == Get(record, config["document_metadata_property"], EmptyDict)
        segments == SplitDocuments(record[config["document_text_property"]],
                                   metadata_dict, filled)
    IN  /\ pc = "idle"
        /\ nread < MaxMessages
        /\ nread' = nread + 1
        /\ message' = m
        /\ out' = <<>>
        /\ replies' = <<>>
        /\ i' = 0
        /\ UNCHANGED <<config0, env, validation, nemitted>>
        /\ IF config["document_text_property"] \notin DOMAIN record
           THEN /\ pc' = "raised"
                /\ error' = [type |-> "KeyError", message |-> <<config["document_text_property"]>>]
                /\ document_segments' = <<>>
                /\ calls' = <<>>
                /\ UNCHANGED <<config, ncalls>>
           ELSE IF ~Get(config, "split_documents", TRUE)
           THEN /\ pc' = "idle"
                /\ document_segments' = <<>>
                /\ calls' = <<>>
                /\ UNCHANGED <<config, error, ncalls>>
           ELSE /\ config' = ConfigAfterSplit(config)
                /\ IF SplitterRejects(filled)
                   THEN /\ pc' = "raised"
                        /\ error' = [type |-> "ValueError", message |-> <<"chunk_overlap">>]
                        /\ document_segments' = <<>>
                        /\ calls' = <<>>
                        /\ UNCHANGED ncalls
                   ELSE IF ~SegmentsAccepted(segments)
                   THEN /\ pc' = "raised"
                        /\ error' = [type |-> "AssertionError",
                                     message |-> <<"No documents output from split.">>]
                        /\ document_segments' = segments
                        /\ calls' = <<>>
                        /\ UNCHANGED ncalls
                   ELSE /\ document_segments' = segments
                        /\ error' = error
                        /\ IF Len(segments) = 0
                           THEN /\ pc' = "idle"
                                /\ calls' = <<>>
                                /\ UNCHANGED ncalls
                           ELSE /\ pc' = "waiting"
                                /\ calls' = <<RequestFor(m, segments, 0, config')>>
                                /\ ncalls' = ncalls + 1

\* The remote service answers: the embedding is attached and the message for
\* segment i is yielded to the consumer, which writes it downstream.
EmbeddingReturns(data) ==
    /\ pc = "waiting"
    /\ replies' = Append(replies, [status |-> "ok", data |-> data])
    /\ out' = Append(out, OutputMessage(message, document_segments, i, data, config))
    /\ nemitted' = nemitted + 1
    /\ pc' = "yielded"
    /\ UNCHANGED <<config, config0, env, validation, message, document_segments,
                   i, calls, error, nread, ncalls>>

\* As RateLimited, with the error swallowed and the segment skipped.
RateLimitedSkipsSegment(ex) ==
    /\ pc = "waiting"
    /\ replies' = Append(replies, [status |-> "RateLimitError", message |-> ex])
    /\ pc' = "yielded"
    /\ UNCHANGED <<config, config0, env, validation, message, document_segments,
                   i, out, calls, error, nread, ncalls, nemitted>>

\* openai.error.RateLimitError: translated, and the sync stops.
RateLimited(ex) ==
    /\ pc = "waiting"
    /\ replies' = Append(replies, [status |-> "RateLimitError", message |-> ex])
    /\ pc' = "raised"
    /\ error' = AbortedSync(ex)
    /\ UNCHANGED <<config, config0, env, validation, message, document_segments,
                   i, out, calls, nread, ncalls, nemitted>>

\* Any other failure of the call propagates as it is.
CallFails(kind, ex) ==
    /\ pc = "waiting"
    /\ replies' = Append(replies, [status |-> kind, message |-> ex])
    /\ pc' = "raised"
    /\ error' = [type |-> kind, message |-> <<ex>>]
    /\ UNCHANGED <<config, config0, env, validation, message, document_segments,
                   i, out, calls, nread, ncalls, nemitted>>

\* As Resume, with the embedding of the segment just emitted reused when the
\* next segment has the same text.
ResumeReusingEmbedding ==
    /\ pc = "yielded"
    /\ i' = i + 1
    /\ IF i + 1 < Len(document_segments)
       THEN IF document_segments[i + 2].page_content = document_segments[i + 1].page_content
            THEN /\ pc' = "yielded"
                 /\ out' = Append(out, OutputMessage(message, document_segments, i + 1,
                                                     <<[embedding |-> out[Len(out)].record["embeddings"]]>>,
                                                     config))
                 /\ nemitted' = nemitted + 1
                 /\ UNCHANGED <<calls, ncalls>>
            ELSE /\ pc' = "waiting"
                 /\ calls' = Append(calls, RequestFor(message, document_segments, i + 1, config))
                 /\ ncalls' = ncalls + 1
                 /\ UNCHANGED <<out, nemitted>>
       ELSE /\ pc' = "idle"
            /\ UNCHANGED <<calls, ncalls, out, nemitted>>
    /\ UNCHANGED <<config, config0, env, validation, message, document_segments,
                   replies, error, nread>>

\* The consumer asks for the next message: the loop moves to the next
\* segment and sends its request, or the generator ends.
Resume ==
    /\ pc = "yielded"
    /\ i' = i + 1
    /\ IF i + 1 < Len(document_segments)
       THEN /\ pc' = "waiting"
            /\ calls' = Append(calls, RequestFor(message, document_segments, i + 1, config))
            /\ ncalls' = ncalls + 1
       ELSE /\ pc' = "idle"
            /\ UNCHANGED <<calls, ncalls>>
    /\ UNCHANGED <<config, config0, env, validation, message, document_segments,
                   out, replies, error, nread, nemitted>>

Next ==
    \/ pc = "idle" /\ \E m \in SchemaMessages : MapSchemaMessage(m)
    \/ pc = "idle" /\ \E m \in RecordMessagesFor(config) : MapRecordMessage(m)
    \/ \E data \in Responses : EmbeddingReturns(data)
    \/ \E ex \in {"Rate limit reached"} : RateLimited(ex)
    \/ \E ex \in {"Connection reset"} : CallFails("APIConnectionError", ex)
    \/ Resume

Spec == Init /\ [][Next]_vars

\* ------------------------------------------------------------- validation
\* _validate_config, lines 79-89.  The inherited validation against
\* config_jsonschema finds nothing in the configurations drawn here.  The
\* method has no return statement.
ValidationOutcome(cfg, environ, raise_errors) ==
    IF /\ raise_errors
       /\ Get(cfg, "openai_api_key", None) = None
       /\ "OPENAI_API_KEY" \notin environ
    THEN [raised |-> TRUE, returned |-> [kind |-> "nothing"]]
    ELSE [raised |-> FALSE, returned |-> [kind |-> "None"]]

ValidateConfig(raise_errors, warnings_as_errors) ==
    /\ validation = NoMessage
    /\ validation' = [type |-> "VALIDATED",
                      raise_errors |-> raise_errors,
                      warnings_as_errors |-> warnings_as_errors,
                      outcome |-> ValidationOutcome(config, env, raise_errors)]
    /\ UNCHANGED <<config, config0, env, pc, message, document_segments, i, out,
                   calls, replies, error, nread, ncalls, nemitted>>

InitValidate == Start(ValidateConfigs, SUBSET EnvNames)

NextValidate == \E r \in BOOLEAN, w \in BOOLEAN : ValidateConfig(r, w)

SpecValidate == InitValidate /\ [][NextValidate]_vars

\* ================================================================ claims
TextProperty == config["document_text_property"]
MetadataProperty == config["document_metadata_property"]

SplitEnabled == Get(config, "split_documents", TRUE)

\* The current input message is a record whose text was handed to the
\* splitter, and the splitter accepted its configuration.
Chunked ==
    /\ message.type = "RECORD"
    /\ SplitEnabled
    /\ TextProperty \in DOMAIN message.record
    /\ error.type # "ValueError"

RECURSIVE Count(_, _)
Count(seq, x) ==
    IF seq = <<>> THEN 0
    ELSE (IF Head(seq) = x THEN 1 ELSE 0) + Count(Tail(seq), x)

\* C4: for an input schema with properties P and keys K exactly one schema
\* message is emitted; its properties are P plus embeddings (array of
\* number), segment_number (integer) and the configured metadata property
\* (object unless P already declares it, and then P's declaration), every
\* other property of P is kept, and its keys are K followed by
\* segment_number.
C4_SchemaTransform ==
    message.type = "SCHEMA" =>
        /\ Len(out) = 1
        /\ LET P == message.schema.properties
               K == message.key_properties
               Q == out[1].schema.properties
           IN  /\ out[1].type = "SCHEMA"
               /\ out[1].stream = message.stream
               /\ DOMAIN Q = DOMAIN P \cup {"embeddings", "segment_number", MetadataProperty}
               /\ Q["embeddings"] = [type |-> "array", items |-> [type |-> "number"]]
               /\ Q["segment_number"] = [type |-> "integer"]
               /\ IF MetadataProperty \in DOMAIN P
                  THEN Q[MetadataProperty] = P[MetadataProperty]
                  ELSE Q[MetadataProperty].type = "object"
               /\ \A p \in DOMAIN P \ {"embeddings", "segment_number"} : Q[p] = P[p]
               /\ out[1].key_properties = K \o <<"segment_number">>

C4_Witness ==
    /\ message.type = "SCHEMA"
    /\ Len(out) = 1
    /\ MetadataProperty \in DOMAIN message.schema.properties
    /\ "embeddings" \in DOMAIN message.schema.properties
    /\ Len(message.key_properties) > 0

\* C5: in every emitted schema message segment_number occurs exactly once in
\* the key-property list, also when the input key list already names it.
C5_SegmentNumberKeyOnce ==
    \A j \in 1..Len(out) :
        out[j].type = "SCHEMA" => Count(out[j].key_properties, "segment_number") = 1

\* C3: with split_documents false, processing a record produces exactly one
\* unit, carrying the record's original text and metadata.
C3_NoSplitSingleUnit ==
    ( /\ message.type = "RECORD"
      /\ ~SplitEnabled
      /\ TextProperty \in DOMAIN message.record
      /\ pc = "idle" ) =>
        /\ Len(out) = 1
        /\ out[1].record[TextProperty] = message.record[TextProperty]
        /\ Get(out[1].record, MetadataProperty, EmptyDict)
             = Get(message.record, MetadataProperty, EmptyDict)

\* C10: the configuration, the caller's splitter_config mapping included,
\* stays equal to its value at initialization.
C10_ConfigReadOnly == config = config0

\* C7: validation raises exactly when raising is requested and none of the
\* three sources its message names provides a key; a caller that does not ask
\* for raising never gets the error and receives an empty report.
C7_ValidateConfig ==
    validation.type = "VALIDATED" =>
        LET resolvable == \/ Get(config, "openai_api_key", None) # None
                          \/ "MAP_OPENAI_EMBEDDINGS_OPEN_API_KEY" \in env
                          \/ "OPENAI_API_KEY" \in env
        IN  /\ validation.outcome.raised <=> (validation.raise_errors /\ ~resolvable)
            /\ ~validation.raise_errors =>
                 validation.outcome.returned
                   = [kind |-> "tuple", warnings |-> <<>>, errors |-> <<>>]

\* C1: with split_documents unset or true, a record whose text is chunked
\* into N segments gives, while every embedding call succeeds, one record
\* message per segment in chunk order, N of them once the record is done; the
\* one for chunk j has segment_number j (from 0), the chunk's text and
\* metadata, the vector returned by the call made for that chunk, and every
\* other field of the input record unchanged.
C1_FanOut ==
    Chunked =>
        LET N == Len(document_segments)
            others == DOMAIN message.record
                        \ {TextProperty, MetadataProperty, "segment_number", "embeddings"}
        IN  /\ Len(out) <= N
            /\ pc = "idle" => Len(out) = N
            /\ \A j \in 1..Len(out) :
                 LET r == out[j].record
                 IN  /\ out[j].type = "RECORD"
                     /\ out[j].stream = message.stream
                     /\ DOMAIN r = DOMAIN message.record
                          \cup {TextProperty, MetadataProperty, "segment_number", "embeddings"}
                     /\ r["segment_number"] = j - 1
                     /\ r[TextProperty] = document_segments[j].page_content
                     /\ r[MetadataProperty] = document_segments[j].metadata
                     /\ replies[j].status = "ok"
                     /\ r["embeddings"] = replies[j].data[1].embedding
                     /\ \A f \in others : r[f] = message.record[f]

C1_Witness ==
    /\ Chunked
    /\ "split_documents" \notin DOMAIN config
    /\ pc = "idle"
    /\ Len(document_segments) = 3
    /\ Len(out) = 3
    /\ out[2].record["embeddings"] # out[3].record["embeddings"]

\* C2: a rate-limit response to the call for segment k raises
\* AbortedSyncFailedException carrying the original error message; nothing
\* is emitted for segment k or a later one, no further call is made, and what
\* was emitted before stays emitted.
C2_RateLimitState ==
    \A k \in 1..Len(replies) :
        replies[k].status = "RateLimitError" =>
            /\ pc = "raised"
            /\ error.type = "AbortedSyncFailedException"
            /\ error.message
                 = <<"Sync aborted due to OpenAI rate limit reached. Error message:\n",
                     replies[k].message>>
            /\ k = Len(replies)
            /\ Len(calls) = k
            /\ Len(out) = k - 1
            /\ i = k - 1

RateLimitAnswered == Len(replies) > 0 /\ replies[Len(replies)].status = "RateLimitError"

C2_RateLimitAborts ==
    /\ []C2_RateLimitState
    /\ [][RateLimitAnswered' =>
            /\ out' = out
            /\ nemitted' = nemitted
            /\ ncalls' = ncalls
            /\ calls' = calls]_vars
    /\ [][~RateLimitAnswered]_vars

C2_Witness ==
    /\ RateLimitAnswered
    /\ Len(document_segments) = 3
    /\ Len(replies) = 2
    /\ Len(out) = 1
    /\ nread = 2
    /\ nemitted > 1

\* C6: a record with an empty text, for which the chunker gives no segment,
\* yields no output record, no embedding call and no error, and the mapper
\* is ready for the next input message.
C6_EmptyText ==
    ( /\ Chunked
      /\ message.record[TextProperty] = <<>> ) =>
        /\ document_segments = <<>>
        /\ out = <<>>
        /\ calls = <<>>
        /\ error = NoError
        /\ pc = "idle"
        /\ nread < MaxMessages =>
             /\ ENABLED (\E m \in SchemaMessages : MapSchemaMessage(m))
             /\ ENABLED (\E m \in RecordMessagesFor(config) : MapRecordMessage(m))

C6_Witness ==
    /\ Chunked
    /\ message.record[TextProperty] = <<>>
    /\ pc = "idle"
    /\ nread = 1
    /\ ENABLED (\E m \in RecordMessagesFor(config) : MapRecordMessage(m))

\* C8: the string sent in an embedding request is the segment's text with
\* every newline replaced by one space (same length, other characters
\* unchanged), sent alone, and the value attached to the record is the
\* embedding of the first element of the response's data list.
C8_GetEmbeddings ==
    /\ \A j \in 1..Len(calls) :
         LET text == document_segments[j].page_content
             sent == calls[j].input
         IN  /\ Len(sent) = 1
             /\ Len(sent[1]) = Len(text)
             /\ \A q \in 1..Len(text) :
                  sent[1][q] = (IF text[q] = "\n" THEN " " ELSE text[q])
    /\ \A j \in 1..Len(out) :
         out[j].type = "RECORD" =>
             out[j].record["embeddings"] = replies[j].data[1].embedding

C8_Witness ==
    /\ Len(out) = 1
    /\ out[1].type = "RECORD"
    /\ \E q \in 1..Len(document_segments[1].page_content) :
         /\ document_segments[1].page_content[q] = "\n"
         /\ calls[1].input[1][q] = " "
    /\ \E q \in 1..Len(document_segments[1].page_content) :
         document_segments[1].page_content[q] = "a"
    /\ Len(replies[1].data) = 2

\* C9: calls and emissions alternate in segment order, one call per segment
\* (also for a repeated text), and the next input message is taken only once
\* every segment of the current one is emitted; so the calls made equal the
\* records emitted, plus one while a call is in flight or has failed.
CallOutstanding ==
    \/ pc = "waiting"
    \/ Len(replies) > 0 /\ replies[Len(replies)].status # "ok"

C9_CallsAndEmissions ==
    LET extra == IF CallOutstanding THEN 1 ELSE 0
    IN  /\ ncalls = nemitted + extra
        /\ message.type = "RECORD" =>
             /\ Len(calls) = Len(out) + extra
             /\ Len(calls) <= Len(document_segments)
             /\ \A j \in 1..Len(calls) : Len(calls[j].input) = 1
             /\ (pc = "idle" /\ error = NoError) => Len(calls) = Len(document_segments)

C9_Alternation ==
    /\ []C9_CallsAndEmissions
    /\ [][\/ /\ ncalls' = ncalls + 1
             /\ nemitted' = nemitted
             /\ ncalls = nemitted
          \/ /\ nemitted' = nemitted + 1
             /\ ncalls' = ncalls
             /\ ncalls = nemitted + 1
          \/ /\ ncalls' = ncalls
             /\ nemitted' = nemitted]_vars
    /\ [][nread' # nread =>
            /\ pc = "idle"
            /\ message.type = "RECORD" => Len(out) = Len(document_segments)]_vars

C9_Witness ==
    /\ message.type = "RECORD"
    /\ pc = "idle"
    /\ nread = 2
    /\ Len(calls) = 2
    /\ calls[1] = calls[2]
    /\ Len(out) = 2
    /\ ncalls > 2

====
